---- MODULE Spec2Model ----
(***************************************************************************)
(* Model of src/src/App.jsx (deutsch-a2-trainer): the persisted Progress   *)
(* store, the day gate, the three one-shot quizzes, the output rule        *)
(* evaluator and the speech queue of the App component.                    *)
(*                                                                         *)
(* One action models one event handler together with the render and the   *)
(* effects React runs for it before the next event is handled: the save    *)
(* effect (line 179) when the progress object was replaced and the         *)
(* day-change effect (lines 214-235) when safeDay changed.                 *)
(*                                                                         *)
(* Strings of the program that are inspected character by character (the   *)
(* output text, keywords, vocabulary) are sequences of one-character       *)
(* strings.  JavaScript values whose type is decided at run time (the      *)
(* fields of a parsed payload) are records [t, n, s]: t is the type tag,   *)
(* n the value of a number, s the value of a string.                       *)
(***************************************************************************)
EXTENDS Integers, Sequences, FiniteSets, TLC

VARIABLES
    storage,          \* localStorage[STORAGE_KEY]: a payload (see Payloads)
    progress,         \* useState(loadProgress()), line 137
    dayPlans,         \* the imported day plans, line 2 (immutable)
    vocabCorrect,     \* line 148
    vocabChosen,      \* line 149: question index -> chosen choice
    grammarCorrect,   \* line 152
    grammarChosen,    \* line 153
    listeningCorrect, \* line 156
    listeningChosen,  \* line 157: <<segIndex, qIndex>> -> chosen choice
    outputText,       \* line 175
    outputReport,     \* line 176
    result,           \* line 177
    loaded,           \* what the last loadProgress() call returned
    ttsSupported,     \* line 160, and "speechSynthesis" in window
    isSpeaking,       \* line 161
    utterQueue,       \* utterQueueRef.current, line 162
    stopToken,        \* stopTokenRef.current, line 166
    engine,           \* the utterances speechSynthesis holds
    flushes,          \* the last hard stop, while its flush utterance has not ended
    timers,           \* the last hard stop, while its 50 ms timer has not fired
    lastCall          \* history: the handler that ran last, and its verdict

vars == <<storage, progress, dayPlans, vocabCorrect, vocabChosen,
          grammarCorrect, grammarChosen, listeningCorrect, listeningChosen,
          outputText, outputReport, result, loaded, ttsSupported, isSpeaking,
          utterQueue, stopToken, engine, flushes, timers, lastCall>>

----------------------------------------------------------------------------
(* Bounds *)

\* Number of day plans the content provider supplies (days 1..NumDays).
NumDays == 3

\* Day numbers handed to goToDay range over 0..NumDays+DayMargin.
DayMargin == 1

\* A quiz set has at most MaxQuestions questions.
MaxQuestions == 2

\* Numbers stored in a tampered payload range over -1..MaxStoredDay.
MaxStoredDay == 2

\* stopTokenRef.current is followed up to MaxToken.
MaxToken == 3

\* A listening block has at most MaxSegments segments.
MaxSegments == 3

----------------------------------------------------------------------------
(* JavaScript values *)

Undef == [t |-> "undefined", n |-> 0, s |-> ""]
Null == [t |-> "null", n |-> 0, s |-> ""]
Num(k) == [t |-> "number", n |-> k, s |-> ""]
Str(x) == [t |-> "string", n |-> 0, s |-> x]
\* a boolean, an array or a nested object
Other == [t |-> "object", n |-> 0, s |-> ""]

\* a ?? b
Nullish(a, b) == IF a.t \in {"undefined", "null"} THEN b ELSE a

Min(a, b) == IF a <= b THEN a ELSE b
Max(a, b) == IF a >= b THEN a ELSE b

----------------------------------------------------------------------------
(* Progress store: localStorage payloads, loadProgress, saveProgress *)

DefaultProgress == [currentDay |-> 1, maxUnlockedDay |-> 1, mode |-> "learn"]

\* A Progress as JavaScript values, and back (numbers and strings only).
Wrap(p) ==
    [currentDay |-> Num(p.currentDay),
     maxUnlockedDay |-> Num(p.maxUnlockedDay),
     mode |-> Str(p.mode)]

Unwrap(j) ==
    [currentDay |-> j.currentDay.n,
     maxUnlockedDay |-> j.maxUnlockedDay.n,
     mode |-> j.mode.s]

\* What localStorage.getItem(STORAGE_KEY) can hold, by what JSON.parse makes
\* of it.  kind: "absent" (getItem returns null), "empty" (the string ""),
\* "invalid" (JSON.parse throws), "null" (the JSON text null), "primitive"
\* (a JSON number, string or boolean), "array", "object".  The three fields
\* are the properties read from the parsed value; a property the value does
\* not have reads as undefined.
Payload(kind, c, m, mo) ==
    [kind |-> kind, currentDay |-> c, maxUnlockedDay |-> m, mode |-> mo]

NoItem == Payload("absent", Undef, Undef, Undef)

StoredDays ==
    {Undef, Null, Other, Str("x")} \cup {Num(k) : k \in -1..MaxStoredDay}

StoredModes ==
    {Undef, Null, Other, Num(1), Str("learn"), Str("quiz"), Str("exam")}

Payloads ==
    {Payload(k, Undef, Undef, Undef) :
        k \in {"absent", "empty", "invalid", "null", "primitive", "array"}}
    \cup {Payload("object", c, m, mo) :
            c \in StoredDays, m \in StoredDays, mo \in StoredModes}

\* JSON.stringify(p) of a Progress, as the payload that parses back from it.
stringify(p) ==
    Payload("object", Num(p.currentDay), Num(p.maxUnlockedDay), Str(p.mode))

\* No Progress: what a block that threw returns.
Nothing == [currentDay |-> Undef, maxUnlockedDay |-> Undef, mode |-> Undef]

\* Lines 8-15, the body of the try block: threw is TRUE when JSON.parse
\* (line 10) or the property read on null (line 12) throws.
loadTry(saved) ==
    IF saved.kind \in {"absent", "empty"}
    THEN [threw |-> FALSE, value |-> Wrap(DefaultProgress)]
    ELSE IF saved.kind \in {"invalid", "null"}
    THEN [threw |-> TRUE, value |-> Nothing]
    ELSE [threw |-> FALSE,
          value |-> [currentDay |-> Nullish(saved.currentDay, Num(1)),
                     maxUnlockedDay |-> Nullish(saved.maxUnlockedDay, Num(1)),
                     mode |-> Nullish(saved.mode, Str("learn"))]]

\* Lines 6-19: raised is TRUE when an error leaves the function.
loadProgress(saved) ==
    IF loadTry(saved).threw
    THEN [raised |-> FALSE, value |-> Wrap(DefaultProgress)]
    ELSE [raised |-> FALSE, value |-> loadTry(saved).value]

\* Lines 21-23.
saveProgress(p) == stringify(p)

\* The value of the loaded variable before loadProgress has been called.
NotLoaded == [raised |-> FALSE, value |-> Nothing]

\* Line 139.
safeDayOf(p) == Min(p.currentDay, p.maxUnlockedDay)
safeDay == safeDayOf(progress)

----------------------------------------------------------------------------
(* Text helpers, lines 25-56.  A text is a sequence of one-character
   strings over Letters, " " and the terminal punctuation marks. *)

Terminals == {".", "!", "?"}

\* String.prototype.toLowerCase on one character.
toLowerCase(c) ==
    CASE c = "A" -> "a"
      [] c = "B" -> "b"
      [] c = "C" -> "c"
      [] OTHER -> c

\* Lines 33-35.
normalize(text) == [i \in 1..Len(text) |-> toLowerCase(text[i])]

\* String.prototype.trim.
RECURSIVE trim(_)
trim(t) ==
    IF t = <<>> THEN <<>>
    ELSE IF Head(t) = " " THEN trim(Tail(t))
    ELSE IF t[Len(t)] = " " THEN trim(SubSeq(t, 1, Len(t) - 1))
    ELSE t

\* String.prototype.includes.
includes(t, w) ==
    \E i \in 0..(Len(t) - Len(w)) : SubSeq(t, i + 1, i + Len(w)) = w

\* text.split(/[.!?]+/g): the fragments between maximal runs of terminal
\* punctuation, the empty fragments before a leading and after a trailing
\* run included.
RECURSIVE splitFrom(_, _, _)
splitFrom(t, i, cur) ==
    IF i > Len(t) THEN <<cur>>
    ELSE IF t[i] \in Terminals
    THEN IF i > 1 /\ t[i - 1] \in Terminals
         THEN splitFrom(t, i + 1, cur)
         ELSE <<cur>> \o splitFrom(t, i + 1, <<>>)
    ELSE splitFrom(t, i + 1, Append(cur, t[i]))

split(t) == splitFrom(t, 1, <<>>)

\* Lines 25-31.
countSentences(text) ==
    LET parts == split(text)
        trimmed == [i \in 1..Len(parts) |-> trim(parts[i])]
        NonEmpty(x) == x # <<>>
    IN Len(SelectSeq(trimmed, NonEmpty))

\* Lines 37-40.
includesAny(haystack, words) ==
    LET t == normalize(haystack)
    IN \E k \in 1..Len(words) : includes(t, normalize(words[k]))

\* Lines 42-49.
countVocabUsed(text, vocabList) ==
    LET t == normalize(text)
    IN Cardinality({k \in 1..Len(vocabList) :
                        includes(t, normalize(vocabList[k]))})

\* \w of a regular expression, on the model's alphabet.
IsWordChar(c) == c \notin (Terminals \cup {" "})

\* \b between positions k and k+1 of t.
boundaryAt(t, k) ==
    (k >= 1 /\ IsWordChar(t[k])) # (k + 1 <= Len(t) /\ IsWordChar(t[k + 1]))

\* new RegExp(p, "i").test(text), line 53-54, for the two shapes of pattern
\* the model has: p.whole = FALSE is the literal p.lit, p.whole = TRUE is
\* \bLIT\b.  The literal is made of letters.
regexTest(p, text) ==
    LET t == normalize(text)
        w == normalize(p.lit)
    IN \E i \in 0..(Len(t) - Len(w)) :
          /\ SubSeq(t, i + 1, i + Len(w)) = w
          /\ p.whole => boundaryAt(t, i) /\ boundaryAt(t, i + Len(w))

\* A testRegexAll that tests the first pattern only.
testRegexAllFirst(text, patterns) ==
    [k \in 1..Min(1, Len(patterns)) |-> regexTest(patterns[k], text)]

\* Lines 51-56.
testRegexAll(text, patterns) ==
    [k \in 1..Len(patterns) |-> regexTest(patterns[k], text)]

----------------------------------------------------------------------------
(* Day plans (./data/dayPlans.json, line 2): the content the model runs on.
   A field that may be missing from a plan is a sequence: <<>> when it is
   missing, <<v>> when it is v. *)

None == <<>>
Some(v) == <<v>>

\* x || [] for a list that may be missing.
OrEmpty(o) == IF o = None THEN <<>> ELSE o[1]

\* a >= o for a number that may be missing: a >= undefined is false.
GeOpt(a, o) == o # None /\ a >= o[1]

\* A ratio num/den in lowest terms, den > 0: the number a division returns.
RECURSIVE GCD(_, _)
GCD(a, b) == IF b = 0 THEN a ELSE GCD(b, a % b)

Ratio(a, b) ==
    IF a = 0 THEN [num |-> 0, den |-> 1]
    ELSE [num |-> a \div GCD(a, b), den |-> b \div GCD(a, b)]

One == Ratio(1, 1)

\* x >= y on ratios.
GeRatio(x, y) == x.num * y.den >= y.num * x.den

VocabQ(answer, choices) == [answer |-> answer, choices |-> choices]
Q(a, choices) == [a |-> a, choices |-> choices]
Segment(text, repeat, quiz) == [text |-> text, repeat |-> repeat, quiz |-> quiz]
Pattern(whole, lit) == [whole |-> whole, lit |-> lit]

PassRules(chars, v, g, l) ==
    [minOutputChars |-> Some(chars), vocabMinCorrect |-> v,
     grammarMinCorrect |-> g, listeningMinCorrect |-> l]

\* Two vocabulary questions, no grammar question, two listening segments of
\* which the second has one question; no required pattern.
PlanA(d, rules) ==
    [day |-> d,
     vocab_list |-> <<[de |-> <<"A">>], [de |-> <<"c">>]>>,
     vocab_quiz |-> <<VocabQ("x", <<"x", "y">>), VocabQ("y", <<"x", "y">>)>>,
     grammar |-> [quiz |-> <<>>],
     listening |-> [segments |-> Some(<<Segment(<<"a">>, 2, <<>>),
                                        Segment(<<"b", ".">>, 1,
                                                <<Q("y", <<"x", "y">>)>>)>>),
                    text |-> <<>>, quiz |-> None],
     outputRules |-> [mustIncludeAny |-> Some(<<<<"B">>, <<"c", "c">>>>),
                      mustIncludeAllPatterns |-> Some(<<>>),
                      minSentences |-> Some(2),
                      mustUseVocabAtLeast |-> Some(1)],
     passRules |-> rules]

\* No vocabulary question, one grammar question, a legacy listening block
\* (text, no quiz); one required pattern, \bb\b.
PlanB(d, rules) ==
    [day |-> d,
     vocab_list |-> <<[de |-> <<"b">>]>>,
     vocab_quiz |-> <<>>,
     grammar |-> [quiz |-> <<Q("x", <<"x", "y">>)>>],
     listening |-> [segments |-> None, text |-> <<"a", ".">>, quiz |-> None],
     outputRules |-> [mustIncludeAny |-> Some(<<>>),
                      mustIncludeAllPatterns |-> Some(<<Pattern(TRUE, <<"b">>)>>),
                      minSentences |-> Some(1),
                      mustUseVocabAtLeast |-> Some(1)],
     passRules |-> rules]

Odd(d) == d % 2 = 1

\* The content the component is checked on: plans A and B alternating.
\* Thresholds: A asks half of the vocabulary and the listening question,
\* B asks the grammar question.
Plans(rulesA, rulesB) ==
    [d \in 1..NumDays |-> IF Odd(d) THEN PlanA(d, rulesA) ELSE PlanB(d, rulesB)]

PlanVariants ==
    {Plans(PassRules(3, Ratio(1, 2), One, One),
           PassRules(2, One, Ratio(1, 2), One))}

\* Thresholds of the day-gate check: every combination of 0, 1/2 and 1.
GateRatios == {Ratio(0, 1), Ratio(1, 2), One}

GateVariants ==
    {Plans(PassRules(3, v, g, l), PassRules(2, l, v, g)) :
        v \in GateRatios, g \in GateRatios, l \in GateRatios}

\* Texts the learner types into the output box.
InputTexts ==
    {<<>>,
     <<"A", " ", "b", ".", " ", "c", "!">>}

\* Line 140-143: dayPlans.find((d) => d.day === safeDay).
planIndex(plans, day) ==
    IF \E k \in 1..Len(plans) : plans[k].day = day
    THEN CHOOSE k \in 1..Len(plans) :
            /\ plans[k].day = day
            /\ \A j \in 1..(k - 1) : plans[j].day # day
    ELSE 0

hasDayPlan == planIndex(dayPlans, safeDay) # 0
dayPlan == dayPlans[planIndex(dayPlans, safeDay)]

\* Lines 59-77.
getListeningSegments(plan) ==
    LET L == plan.listening
    IN IF L.segments # None /\ Len(L.segments[1]) > 0 THEN L.segments[1]
       ELSE IF L.text # <<>>
       THEN <<Segment(L.text, 1, OrEmpty(L.quiz))>>
       ELSE <<>>

\* Lines 79-93: the questions of all segments in order, each with its key
\* `${segIndex}-${qIndex}` (here <<segIndex, qIndex>>, counted from 0).
RECURSIVE flattenFrom(_, _)
flattenFrom(segs, s) ==
    IF s > Len(segs) THEN <<>>
    ELSE [k \in 1..Len(segs[s].quiz) |->
            [segIndex |-> s - 1, qIndex |-> k - 1, q |-> segs[s].quiz[k],
             key |-> <<s - 1, k - 1>>]]
         \o flattenFrom(segs, s + 1)

flattenListeningQuiz(plan) == flattenFrom(getListeningSegments(plan), 1)

listeningQuizFlat == flattenListeningQuiz(dayPlan)

----------------------------------------------------------------------------
(* Output rule evaluator, lines 371-415 *)

NoReport == [isNull |-> TRUE]
NoResult == [isNull |-> TRUE]

\* Lines 372-404: the report evaluateOutput builds of text under plan.
outputReportOf(plan, text) ==
    LET rules == plan.outputRules
        t == text
        charCount == Len(trim(t))
        sentences == countSentences(t)
        hasAnyKeywords == includesAny(t, OrEmpty(rules.mustIncludeAny))
        patternChecks == testRegexAll(t, OrEmpty(rules.mustIncludeAllPatterns))
        patternsOk == \A k \in 1..Len(patternChecks) : patternChecks[k]
        todaysVocabList == [k \in 1..Len(plan.vocab_list) |-> plan.vocab_list[k].de]
        vocabUsedCount == countVocabUsed(t, todaysVocabList)
    IN [isNull |-> FALSE,
        charCount |-> charCount,
        minChars |-> plan.passRules.minOutputChars,
        charsOk |-> GeOpt(charCount, plan.passRules.minOutputChars),
        sentences |-> sentences,
        minSentences |-> rules.minSentences,
        sentencesOk |-> GeOpt(sentences, rules.minSentences),
        mustIncludeAny |-> OrEmpty(rules.mustIncludeAny),
        keywordOk |-> IF Len(OrEmpty(rules.mustIncludeAny)) = 0
                      THEN TRUE ELSE hasAnyKeywords,
        mustIncludeAllPatterns |-> OrEmpty(rules.mustIncludeAllPatterns),
        patternChecks |-> patternChecks,
        patternsOk |-> patternsOk,
        vocabUsedCount |-> vocabUsedCount,
        mustUseVocabAtLeast |-> rules.mustUseVocabAtLeast,
        vocabOk |-> GeOpt(vocabUsedCount, rules.mustUseVocabAtLeast)]

\* Lines 408-414: what evaluateOutput returns.
reportPasses(report) ==
    /\ report.charsOk
    /\ report.sentencesOk
    /\ report.keywordOk
    /\ report.patternsOk
    /\ report.vocabOk

----------------------------------------------------------------------------
(* Quiz scoring and the day gate, lines 417-447 *)

\* score without the guard on an empty set (0/0 compares as failing).
scoreUnguarded(correct, length) == Ratio(correct, length)

\* Lines 418-426: length ? correct / length : 1.
score(correct, length) == IF length # 0 THEN Ratio(correct, length) ELSE One

\* passedOf without the listening threshold.
passedOfNoListening(vocabScore, grammarScore, listeningScore, rules, outputOk) ==
    /\ GeRatio(vocabScore, rules.vocabMinCorrect)
    /\ GeRatio(grammarScore, rules.grammarMinCorrect)
    /\ outputOk

\* Lines 430-434.
passedOf(vocabScore, grammarScore, listeningScore, rules, outputOk) ==
    /\ GeRatio(vocabScore, rules.vocabMinCorrect)
    /\ GeRatio(grammarScore, rules.grammarMinCorrect)
    /\ GeRatio(listeningScore, rules.listeningMinCorrect)
    /\ outputOk

\* Lines 418-436: the verdict checkPassAndUnlock hands to setResult.
verdictOf(plan, vCorrect, gCorrect, lCorrect, text) ==
    LET vocabScore == score(vCorrect, Len(plan.vocab_quiz))
        grammarScore == score(gCorrect, Len(plan.grammar.quiz))
        listeningScore == score(lCorrect, Len(flattenListeningQuiz(plan)))
        outputOk == reportPasses(outputReportOf(plan, text))
    IN [isNull |-> FALSE,
        vocabScore |-> vocabScore,
        grammarScore |-> grammarScore,
        listeningScore |-> listeningScore,
        outputOk |-> outputOk,
        passed |-> passedOf(vocabScore, grammarScore, listeningScore,
                            plan.passRules, outputOk)]

\* unlockNext storing nextDay without Math.max.
unlockNextNoMax(p, nextDay) ==
    [p EXCEPT !.maxUnlockedDay = nextDay,
              !.currentDay = nextDay,
              !.mode = "learn"]

\* unlockNext counting the unlocked days up instead of taking the maximum.
unlockNextIncrement(p, nextDay) ==
    [p EXCEPT !.maxUnlockedDay = p.maxUnlockedDay + 1,
              !.currentDay = nextDay,
              !.mode = "learn"]

\* unlockNext leaving the mode as it is.
unlockNextKeepMode(p, nextDay) ==
    [p EXCEPT !.maxUnlockedDay = Max(p.maxUnlockedDay, nextDay),
              !.currentDay = nextDay]

\* Lines 440-445: the updater handed to setProgress on a pass.
unlockNext(p, nextDay) ==
    [p EXCEPT !.maxUnlockedDay = Max(p.maxUnlockedDay, nextDay),
              !.currentDay = nextDay,
              !.mode = "learn"]

\* afterVerdict raising maxUnlockedDay before the verdict is looked at.
afterVerdictPartial(p, day, passed) ==
    IF passed THEN [p EXCEPT !.maxUnlockedDay = Max(p.maxUnlockedDay, day + 1),
                             !.currentDay = day + 1,
                             !.mode = "learn"]
    ELSE [p EXCEPT !.maxUnlockedDay = Max(p.maxUnlockedDay, day + 1)]

\* Lines 438-446: the progress after the verdict on active day `day`.
afterVerdict(p, day, passed) == IF passed THEN unlockNext(p, day + 1) ELSE p

\* Line 259: the updater of setMode.
withMode(p, newMode) == [p EXCEPT !.mode = newMode]

\* goToDay without the check against maxUnlockedDay.
goToDayRejectsLowOnly(day, p) == day < 1

\* goToDay checking against currentDay + 1 instead of maxUnlockedDay.
goToDayRejectsByCurrent(day, p) == day < 1 \/ day > p.currentDay + 1

\* Lines 263-264: the two early returns of goToDay.
goToDayRejects(day, p) == day < 1 \/ day > p.maxUnlockedDay

\* Line 265: the updater of goToDay.
withDay(p, day) == [p EXCEPT !.currentDay = day, !.mode = "learn"]

\* Choice buttons that are never disabled.
lockedNever(chosen, key) == FALSE

\* Lines 700, 748, 811: locked = chosen !== undefined, which disables the
\* choice buttons of the question (lines 713, 759, 824).
locked(chosen, key) == key \in DOMAIN chosen

\* Lines 715, 761, 826: { ...prev, [key]: c }.
withChoice(prev, key, c) ==
    [k \in DOMAIN prev \cup {key} |-> IF k = key THEN c ELSE prev[k]]

\* Lines 716, 762, 827: the count after a click on choice c.
countAfter(correct, c, answer) == IF c = answer THEN correct + 1 ELSE correct

----------------------------------------------------------------------------
(* The speech queue controller and the speech engine                       *)
(*                                                                         *)
(* The engine is window.speechSynthesis.  It holds the utterances handed   *)
(* to it by speak() until it has delivered the end or the error event of   *)
(* each; it delivers at most one of the two per utterance, and the start   *)
(* event at most once before it, at a time of its own choosing.  cancel()  *)
(* is advisory: the utterances it hits are marked, and their events may    *)
(* still arrive.  pause() changes nothing the controller reads.            *)

\* The controller's state, and the engine's, as one value.
Speech ==
    [ttsSupported |-> ttsSupported, isSpeaking |-> isSpeaking,
     utterQueue |-> utterQueue, stopToken |-> stopToken,
     engine |-> engine, flushes |-> flushes, timers |-> timers]

\* Lines 160-166: the state of the first render, in a browser that has
\* speechSynthesis (supported) or has not.
Silent(supported) ==
    [ttsSupported |-> supported, isSpeaking |-> FALSE, utterQueue |-> <<>>,
     stopToken |-> 0, engine |-> {}, flushes |-> {}, timers |-> {}]

\* Line 320: new SpeechSynthesisUtterance(next), built by the loop whose
\* myToken is token, for the idx-th entry of its filtered list.  started is
\* the engine's: whether it has delivered the start event.
Utterance(token, idx, text) ==
    [token |-> token, idx |-> idx, text |-> text, started |-> FALSE]

\* Lines 101-134.  fails: the engine's methods throw in this handler; every
\* call is inside a try, and the timer is set after speak(flush) in the
\* same try.  The flush utterance and the timer of an earlier hard stop are
\* no longer followed: the cancel() they call changes nothing here.
iosHardStop(s, fails) ==
    IF fails THEN [s EXCEPT !.flushes = {}, !.timers = {}]
    ELSE [s EXCEPT !.flushes = {s.stopToken}, !.timers = {s.stopToken}]

\* A stop that clears the speaking flag and keeps the queue.
idleKeepQueue(s) == [s EXCEPT !.isSpeaking = FALSE]

\* Lines 274-275 and 287-288.
idle(s) == [s EXCEPT !.isSpeaking = FALSE, !.utterQueue = <<>>]

\* A stopSpeaking that invalidates the loops after the early return.
stopSpeakingOfLate(s, fails) ==
    IF ~s.ttsSupported THEN idle(s)
    ELSE idle(iosHardStop([s EXCEPT !.stopToken = @ + 1], fails))

\* Lines 268-290.
stopSpeakingOf(s, fails) ==
    LET t == [s EXCEPT !.stopToken = @ + 1]
    IN IF ~s.ttsSupported THEN idle(t) ELSE idle(iosHardStop(t, fails))

\* A speakNext that hands every queued entry to the engine at once.
speakNextAll(s, myToken, idx, fails) ==
    IF s.stopToken # myToken \/ s.utterQueue = <<>>
    THEN [s EXCEPT !.isSpeaking = FALSE]
    ELSE [s EXCEPT !.utterQueue = <<>>,
                   !.engine = @ \cup {Utterance(myToken, idx + k - 1, s.utterQueue[k]) :
                                        k \in 1..Len(s.utterQueue)}]

\* Lines 305-347: speakNext of the loop whose myToken is myToken; idx is
\* the position of the next entry in the loop's filtered list.  When
\* speak(u) throws the catch calls speakNext again.
RECURSIVE speakNext(_, _, _, _)
speakNext(s, myToken, idx, fails) ==
    IF s.stopToken # myToken THEN [s EXCEPT !.isSpeaking = FALSE]
    ELSE IF s.utterQueue = <<>> THEN [s EXCEPT !.isSpeaking = FALSE]
    ELSE LET next == Head(s.utterQueue)
             t == [s EXCEPT !.utterQueue = Tail(@)]
         IN IF fails THEN speakNext(t, myToken, idx + 1, fails)
            ELSE [t EXCEPT !.engine = @ \cup {Utterance(myToken, idx, next)}]

\* Line 298: texts.filter((t) => String(t || "").trim().length > 0).
IsSpoken(text) == Len(trim(text)) > 0
filterTexts(texts) == SelectSeq(texts, IsSpoken)

\* A speakTextsAsQueue without the early return for an unsupported engine.
speakTextsAsQueueUnguarded(s, texts, fails) ==
    LET t == idle(iosHardStop([s EXCEPT !.stopToken = @ + 1], fails))
        queue == filterTexts(texts)
    IN IF queue = <<>> THEN t
       ELSE speakNext([t EXCEPT !.utterQueue = queue], t.stopToken, 1, fails)

\* Lines 292-350.
speakTextsAsQueue(s, texts, fails) ==
    IF ~s.ttsSupported THEN s
    ELSE LET t == stopSpeakingOf(s, fails)
             queue == filterTexts(texts)
         IN IF queue = <<>> THEN t
            ELSE speakNext([t EXCEPT !.utterQueue = queue], t.stopToken, 1, fails)

\* Lines 355-356 and 365-367: seg.text pushed
\* Math.max(1, Number(seg.repeat || 1)) times.
repeated(seg) == [r \in 1..Max(1, seg.repeat) |-> seg.text]

\* Lines 352-360: the texts speakAllListening hands to speakTextsAsQueue.
RECURSIVE allTextsFrom(_, _)
allTextsFrom(segs, k) ==
    IF k > Len(segs) THEN <<>>
    ELSE repeated(segs[k]) \o allTextsFrom(segs, k + 1)

allTexts(plan) == allTextsFrom(getListeningSegments(plan), 1)

\* Line 328: u.onstart.
onstartOf(s, u) ==
    [s EXCEPT !.isSpeaking = TRUE,
              !.engine = (@ \ {u}) \cup {[u EXCEPT !.started = TRUE]}]

\* u.onend without the comparison of the stop token with myToken, in a loop
\* that reads the stop token when it runs.
onendOfNoToken(s, u, fails) ==
    speakNext([s EXCEPT !.engine = @ \ {u}], s.stopToken, u.idx + 1, fails)

\* A u.onend that does not go on to the next entry.
onendOfStall(s, u, fails) == [s EXCEPT !.engine = @ \ {u}]

\* Lines 330-333: u.onend.  The engine no longer holds u.
onendOf(s, u, fails) ==
    LET t == [s EXCEPT !.engine = @ \ {u}]
    IN IF s.stopToken # u.token THEN t
       ELSE speakNext(t, u.token, u.idx + 1, fails)

\* A u.onerror that gives up the rest of the queue.
onerrorOfAbort(s, u, fails) ==
    LET t == [s EXCEPT !.engine = @ \ {u}]
    IN IF s.stopToken # u.token THEN t ELSE idle(t)

\* Lines 335-338: u.onerror.  The engine no longer holds u.
onerrorOf(s, u, fails) ==
    LET t == [s EXCEPT !.engine = @ \ {u}]
    IN IF s.stopToken # u.token THEN t
       ELSE speakNext(t, u.token, u.idx + 1, fails)

\* Lines 119-123: flush.onend of the hard stop of stop token `by`.
flushOnend(s, by) == [s EXCEPT !.flushes = @ \ {by}]

\* Lines 126-130: the timer of the hard stop of stop token `by`.
timerFires(s, by) == [s EXCEPT !.timers = @ \ {by}]

\* A day-change effect that hard-stops the engine and leaves the stop token.
afterDayEffectSpeechNoToken(oldDay, newDay, s, fails) ==
    IF newDay = oldDay THEN s
    ELSE IF s.ttsSupported THEN idle(iosHardStop(s, fails)) ELSE idle(s)

\* Lines 225-234: the speech part of the day-change effect.
afterDayEffectSpeech(oldDay, newDay, s, fails) ==
    IF newDay = oldDay THEN s
    ELSE IF s.ttsSupported
         THEN idle(iosHardStop([s EXCEPT !.stopToken = @ + 1], fails))
         ELSE idle(s)

----------------------------------------------------------------------------
(* The component: state after mount, render effects, event handlers *)

\* The record kept in lastCall: the handler called, and of its arguments and
\* locals those that later say what the call was (0, <<>>, "", FALSE when
\* the handler has none).
Call(fn, day, key, choice, passed) ==
    [fn |-> fn, day |-> day, key |-> key, choice |-> choice, passed |-> passed]

\* The per-day state the handlers read and write.
Ephemeral ==
    [vocabCorrect |-> vocabCorrect, vocabChosen |-> vocabChosen,
     grammarCorrect |-> grammarCorrect, grammarChosen |-> grammarChosen,
     listeningCorrect |-> listeningCorrect, listeningChosen |-> listeningChosen,
     outputText |-> outputText, outputReport |-> outputReport,
     result |-> result]

\* Lines 215-223: what the day-change effect sets.
Cleared ==
    [vocabCorrect |-> 0, vocabChosen |-> <<>>,
     grammarCorrect |-> 0, grammarChosen |-> <<>>,
     listeningCorrect |-> 0, listeningChosen |-> <<>>,
     outputText |-> <<>>, outputReport |-> NoReport,
     result |-> NoResult]

\* A day-change effect without its dependency on safeDay: it runs after
\* every render.
afterDayEffectAlways(oldDay, newDay, e) == Cleared

\* A day-change effect that leaves the listening quiz as it is.
afterDayEffectKeepListening(oldDay, newDay, e) ==
    IF newDay # oldDay
    THEN [Cleared EXCEPT !.listeningCorrect = e.listeningCorrect,
                         !.listeningChosen = e.listeningChosen]
    ELSE e

\* Lines 214-235: the effect runs when safeDay differs from the last render.
afterDayEffect(oldDay, newDay, e) == IF newDay # oldDay THEN Cleared ELSE e

\* A save effect that runs after the first render only.
afterSaveEffectStale(replaced, p, stored) == stored

\* Line 179: the effect runs when setProgress installed a new object.
afterSaveEffect(replaced, p, stored) ==
    IF replaced THEN saveProgress(p) ELSE stored

\* The speech variables hold the Speech value t.
SpeechIs(t) ==
    /\ ttsSupported = t.ttsSupported
    /\ isSpeaking = t.isSpeaking
    /\ utterQueue = t.utterQueue
    /\ stopToken = t.stopToken
    /\ engine = t.engine
    /\ flushes = t.flushes
    /\ timers = t.timers

\* The assignment of a Speech value to the speech variables.
SetSpeech(t) ==
    /\ ttsSupported' = t.ttsSupported
    /\ isSpeaking' = t.isSpeaking
    /\ utterQueue' = t.utterQueue
    /\ stopToken' = t.stopToken
    /\ engine' = t.engine
    /\ flushes' = t.flushes
    /\ timers' = t.timers

\* The render that follows a handler, with its effects: p is the progress
\* after the handler, replaced says whether the handler called setProgress,
\* e is the per-day state after the handler.  A day change that would take
\* stopToken beyond MaxToken is not followed.
Render(p, replaced, e) ==
    LET f == afterDayEffect(safeDay, safeDayOf(p), e)
    IN /\ (ttsSupported /\ safeDayOf(p) # safeDay) => stopToken < MaxToken
       /\ progress' = p
       /\ storage' = afterSaveEffect(replaced, p, storage)
       /\ vocabCorrect' = f.vocabCorrect
       /\ vocabChosen' = f.vocabChosen
       /\ grammarCorrect' = f.grammarCorrect
       /\ grammarChosen' = f.grammarChosen
       /\ listeningCorrect' = f.listeningCorrect
       /\ listeningChosen' = f.listeningChosen
       /\ outputText' = f.outputText
       /\ outputReport' = f.outputReport
       /\ result' = f.result
       /\ \E fails \in IF ttsSupported /\ safeDayOf(p) # safeDay
                       THEN BOOLEAN ELSE {FALSE} :
             SetSpeech(afterDayEffectSpeech(safeDay, safeDayOf(p), Speech, fails))
       /\ UNCHANGED <<dayPlans, loaded>>

\* Lines 137-179, 214-235: the first render with an empty localStorage, in a
\* browser without speechSynthesis, and its effects.
Init ==
    /\ dayPlans \in PlanVariants
    /\ loaded = loadProgress(NoItem)
    /\ progress = Unwrap(loaded.value)
    /\ storage = saveProgress(progress)
    /\ vocabCorrect = 0
    /\ vocabChosen = <<>>
    /\ grammarCorrect = 0
    /\ grammarChosen = <<>>
    /\ listeningCorrect = 0
    /\ listeningChosen = <<>>
    /\ outputText = <<>>
    /\ outputReport = NoReport
    /\ result = NoResult
    /\ SpeechIs(Silent(FALSE))
    /\ lastCall = Call("mount", 0, <<>>, "", FALSE)

\* Lines 258-260, called from the buttons at 478, 489, 682.
setMode(newMode) ==
    /\ hasDayPlan
    /\ Render(withMode(progress, newMode), TRUE, Ephemeral)
    /\ lastCall' = Call("setMode", 0, <<>>, "", FALSE)

\* Lines 262-266.  The Previous and Next buttons (lines 561, 569) call it
\* with safeDay - 1 and safeDay + 1.
goToDay(day) ==
    /\ hasDayPlan
    /\ IF goToDayRejects(day, progress)
       THEN Render(progress, FALSE, Ephemeral)
       ELSE Render(withDay(progress, day), TRUE, Ephemeral)
    /\ lastCall' = Call("goToDay", day, <<>>, "", FALSE)

\* Lines 243-246 and 577-582: the two Reset buttons.  The second asks
\* confirm() first.  removeItem is followed by the save effect of the
\* render, which stores the default Progress.
reset(confirmed) ==
    /\ hasDayPlan \/ confirmed
    /\ IF confirmed
       THEN Render(DefaultProgress, TRUE, Ephemeral)
       ELSE Render(progress, FALSE, Ephemeral)
    /\ lastCall' = Call("reset", 0, <<>>, "", confirmed)

\* Lines 711-717: a click on choice c of vocabulary question i.
answerVocab(i, c) ==
    /\ hasDayPlan
    /\ progress.mode = "quiz"
    /\ i \in 0..(Len(dayPlan.vocab_quiz) - 1)
    /\ LET q == dayPlan.vocab_quiz[i + 1]
       IN /\ \E k \in 1..Len(q.choices) : q.choices[k] = c
          /\ IF locked(vocabChosen, i)
             THEN Render(progress, FALSE, Ephemeral)
             ELSE Render(progress, FALSE,
                    [Ephemeral EXCEPT
                       !.vocabChosen = withChoice(vocabChosen, i, c),
                       !.vocabCorrect = countAfter(vocabCorrect, c, q.answer)])
    /\ lastCall' = Call("answerVocab", 0, <<i>>, c, FALSE)

\* Lines 757-763: a click on choice c of grammar question i.
answerGrammar(i, c) ==
    /\ hasDayPlan
    /\ progress.mode = "quiz"
    /\ i \in 0..(Len(dayPlan.grammar.quiz) - 1)
    /\ LET q == dayPlan.grammar.quiz[i + 1]
       IN /\ \E k \in 1..Len(q.choices) : q.choices[k] = c
          /\ IF locked(grammarChosen, i)
             THEN Render(progress, FALSE, Ephemeral)
             ELSE Render(progress, FALSE,
                    [Ephemeral EXCEPT
                       !.grammarChosen = withChoice(grammarChosen, i, c),
                       !.grammarCorrect = countAfter(grammarCorrect, c, q.a)])
    /\ lastCall' = Call("answerGrammar", 0, <<i>>, c, FALSE)

\* Lines 822-828: a click on choice c of the idx-th flattened listening
\* question.
answerListening(idx, c) ==
    /\ hasDayPlan
    /\ progress.mode = "quiz"
    /\ idx \in 1..Len(listeningQuizFlat)
    /\ LET item == listeningQuizFlat[idx]
           q == item.q
       IN /\ \E k \in 1..Len(q.choices) : q.choices[k] = c
          /\ IF locked(listeningChosen, item.key)
             THEN Render(progress, FALSE, Ephemeral)
             ELSE Render(progress, FALSE,
                    [Ephemeral EXCEPT
                       !.listeningChosen = withChoice(listeningChosen, item.key, c),
                       !.listeningCorrect = countAfter(listeningCorrect, c, q.a)])
          /\ lastCall' = Call("answerListening", 0, item.key, c, FALSE)

\* Line 870: the learner edits the output box.
setOutputText(text) ==
    /\ hasDayPlan
    /\ progress.mode = "quiz"
    /\ Render(progress, FALSE, [Ephemeral EXCEPT !.outputText = text])
    /\ lastCall' = Call("setOutputText", 0, <<>>, "", FALSE)

\* An Evaluate Output button that stores a verdict too.
evaluateOutputWithVerdict ==
    /\ hasDayPlan
    /\ progress.mode = "quiz"
    /\ Render(progress, FALSE,
         [Ephemeral EXCEPT
            !.outputReport = outputReportOf(dayPlan, outputText),
            !.result = verdictOf(dayPlan, vocabCorrect, grammarCorrect,
                                 listeningCorrect, outputText)])
    /\ lastCall' = Call("evaluateOutput", 0, <<>>, "", FALSE)

\* Lines 371-415, called from the button at 874.
evaluateOutput ==
    /\ hasDayPlan
    /\ progress.mode = "quiz"
    /\ Render(progress, FALSE,
         [Ephemeral EXCEPT !.outputReport = outputReportOf(dayPlan, outputText)])
    /\ lastCall' = Call("evaluateOutput", 0, <<>>, "", FALSE)

\* Lines 417-447, called from the button at 908.
checkPassAndUnlock ==
    /\ hasDayPlan
    /\ progress.mode = "quiz"
    /\ LET v == verdictOf(dayPlan, vocabCorrect, grammarCorrect,
                          listeningCorrect, outputText)
           e == [Ephemeral EXCEPT
                    !.outputReport = outputReportOf(dayPlan, outputText),
                    !.result = v]
       IN /\ Render(afterVerdict(progress, safeDay, v.passed), v.passed, e)
          /\ lastCall' = Call("checkPassAndUnlock", safeDay, <<>>, "", v.passed)

\* The choices of the questions of the plans.
Choices == {"x", "y"}

Next ==
    \/ \E m \in {"learn", "quiz"} : setMode(m)
    \/ \E d \in 0..(NumDays + DayMargin) : goToDay(d)
    \/ \E b \in BOOLEAN : reset(b)
    \/ \E i \in 0..(MaxQuestions - 1), c \in Choices : answerVocab(i, c)
    \/ \E i \in 0..(MaxQuestions - 1), c \in Choices : answerGrammar(i, c)
    \/ \E i \in 1..MaxQuestions, c \in Choices : answerListening(i, c)
    \/ \E t \in InputTexts : setOutputText(t)
    \/ evaluateOutput
    \/ checkPassAndUnlock

Spec == Init /\ [][Next]_vars

----------------------------------------------------------------------------
(* The speech controls, the engine's callbacks, and navigation *)

\* Handlers and callbacks that leave the progress store and the quiz state
\* as they are.
Quiet ==
    UNCHANGED <<storage, progress, dayPlans, vocabCorrect, vocabChosen,
                grammarCorrect, grammarChosen, listeningCorrect,
                listeningChosen, outputText, outputReport, result, loaded>>

\* Lines 268-290 as a handler.  A call that would take stopToken beyond
\* MaxToken is not followed.
stopSpeaking(fails) ==
    /\ hasDayPlan
    /\ stopToken < MaxToken
    /\ SetSpeech(stopSpeakingOf(Speech, fails))
    /\ Quiet
    /\ lastCall' = Call("stopSpeaking", 0, <<>>, "", FALSE)

\* Lines 352-360.
speakAllListening(fails) ==
    /\ hasDayPlan
    /\ stopToken < MaxToken
    /\ SetSpeech(speakTextsAsQueue(Speech, allTexts(dayPlan), fails))
    /\ Quiet
    /\ lastCall' = Call("speakAllListening", 0, <<>>, "", FALSE)

\* Lines 362-369; the buttons call it with the index of a segment.
speakOneSegment(segIndex, fails) ==
    /\ hasDayPlan
    /\ stopToken < MaxToken
    /\ segIndex \in 0..(Len(getListeningSegments(dayPlan)) - 1)
    /\ LET texts == repeated(getListeningSegments(dayPlan)[segIndex + 1])
       IN /\ SetSpeech(speakTextsAsQueue(Speech, texts, fails))
          /\ lastCall' = Call("speakOneSegment", 0, <<>>, "", FALSE)
    /\ Quiet

\* Lines 640-650, 792-802: the Play button is rendered when ttsSupported and
\* not isSpeaking.
pressPlayAll(fails) == ttsSupported /\ ~isSpeaking /\ speakAllListening(fails)

\* Lines 664-668: the Play segment button is rendered when ttsSupported and
\* disabled when isSpeaking.
pressPlaySegment(segIndex, fails) ==
    ttsSupported /\ ~isSpeaking /\ speakOneSegment(segIndex, fails)

\* Lines 505-517 and 647, 799: the voice select is rendered when
\* ttsSupported, the Stop button when ttsSupported and isSpeaking.
pressStop(fails) == ttsSupported /\ stopSpeaking(fails)

\* The engine delivers the start event of u.  lastCall keeps the stop token
\* and the position of u as day and key.
onstart(u) ==
    /\ u \in engine
    /\ ~u.started
    /\ SetSpeech(onstartOf(Speech, u))
    /\ Quiet
    /\ lastCall' = Call("onstart", u.token, <<u.idx>>, "", FALSE)

\* The engine delivers the end event of u.
onend(u, fails) ==
    /\ u \in engine
    /\ SetSpeech(onendOf(Speech, u, fails))
    /\ Quiet
    /\ lastCall' = Call("onend", u.token, <<u.idx>>, "", FALSE)

\* The engine delivers the error event of u.
onerror(u, fails) ==
    /\ u \in engine
    /\ SetSpeech(onerrorOf(Speech, u, fails))
    /\ Quiet
    /\ lastCall' = Call("onerror", u.token, <<u.idx>>, "", FALSE)

\* The flush utterance of the hard stop of stop token `by` ends.
flushEnds(by) ==
    /\ by \in flushes
    /\ SetSpeech(flushOnend(Speech, by))
    /\ Quiet
    /\ lastCall' = Call("flush.onend", by, <<>>, "", FALSE)

\* The 50 ms timer of the hard stop of stop token `by` fires.
timerFired(by) ==
    /\ by \in timers
    /\ SetSpeech(timerFires(Speech, by))
    /\ Quiet
    /\ lastCall' = Call("timer", by, <<>>, "", FALSE)

\* A lesson whose listening block starts with a segment without text that
\* is repeated, followed by two spoken segments, one without a repeat count.
PlanS(d, rules) ==
    [PlanA(d, rules) EXCEPT
        !.listening = [segments |-> Some(<<Segment(<<" ">>, 2, <<>>),
                                           Segment(<<"a">>, 0, <<>>),
                                           Segment(<<"b", ".">>, 1, <<>>)>>),
                       text |-> <<>>, quiz |-> None]]

SpeechVariants ==
    {[d \in 1..NumDays |->
        IF Odd(d) THEN PlanS(d, PassRules(3, Ratio(1, 2), One, One))
        ELSE PlanB(d, PassRules(2, One, Ratio(1, 2), One))]}

\* Lines 160-166, 181-235: the speech state after the effects of the first
\* render; the day-change effect runs then too.
Mounted(supported, fails) ==
    afterDayEffectSpeech(0, 1, Silent(supported), fails)

\* A learner who unlocked every day in an earlier session comes back to the
\* quiz page of one of them, answers every question correctly and types a
\* text; nothing has been played yet.
InitSpeech ==
    /\ dayPlans \in SpeechVariants
    /\ \E d \in 1..NumDays :
          storage = stringify([currentDay |-> d, maxUnlockedDay |-> NumDays,
                               mode |-> "quiz"])
    /\ loaded = loadProgress(storage)
    /\ progress = Unwrap(loaded.value)
    /\ LET plan == dayPlans[progress.currentDay]
           flat == flattenListeningQuiz(plan)
       IN /\ vocabChosen =
                [i \in 0..(Len(plan.vocab_quiz) - 1) |-> plan.vocab_quiz[i + 1].answer]
          /\ vocabCorrect = Len(plan.vocab_quiz)
          /\ grammarChosen =
                [i \in 0..(Len(plan.grammar.quiz) - 1) |-> plan.grammar.quiz[i + 1].a]
          /\ grammarCorrect = Len(plan.grammar.quiz)
          /\ listeningChosen =
                [key \in {flat[k].key : k \in 1..Len(flat)} |->
                    flat[CHOOSE k \in 1..Len(flat) : flat[k].key = key].q.a]
          /\ listeningCorrect = Len(flat)
    /\ outputText = <<"A", " ", "b", ".", " ", "c", "!">>
    /\ outputReport = NoReport
    /\ result = NoResult
    /\ \E supported \in BOOLEAN, fails \in BOOLEAN :
          SpeechIs(Mounted(supported, fails))
    /\ lastCall = Call("setOutputText", 0, <<>>, "", FALSE)

\* The speech controls as the page offers them, the engine, and the
\* handlers that change the day.
NextSpeech ==
    \/ \E d \in 0..(NumDays + DayMargin) : goToDay(d)
    \/ \E b \in BOOLEAN : reset(b)
    \/ checkPassAndUnlock
    \/ \E fails \in BOOLEAN : pressPlayAll(fails)
    \/ \E i \in 0..(MaxSegments - 1), fails \in BOOLEAN : pressPlaySegment(i, fails)
    \/ \E fails \in BOOLEAN : pressStop(fails)
    \/ \E u \in engine : onstart(u)
    \/ \E u \in engine, fails \in BOOLEAN : onend(u, fails)
    \/ \E u \in engine, fails \in BOOLEAN : onerror(u, fails)
    \/ \E by \in flushes : flushEnds(by)
    \/ \E by \in timers : timerFired(by)

SpecSpeech == InitSpeech /\ [][NextSpeech]_vars

\* The controller's three entry points called in any state, also when
\* ttsSupported is false (the branches at lines 272 and 293), and the engine.
NextController ==
    \/ \E fails \in BOOLEAN : speakAllListening(fails)
    \/ \E i \in 0..(MaxSegments - 1), fails \in BOOLEAN : speakOneSegment(i, fails)
    \/ \E fails \in BOOLEAN : stopSpeaking(fails)
    \/ \E u \in engine : onstart(u)
    \/ \E u \in engine, fails \in BOOLEAN : onend(u, fails)
    \/ \E u \in engine, fails \in BOOLEAN : onerror(u, fails)
    \/ \E by \in flushes : flushEnds(by)
    \/ \E by \in timers : timerFired(by)

SpecController == InitSpeech /\ [][NextController]_vars

\* The engine delivers the end or the error event of the utterance it holds
\* for entry idx of the loop of stop token `token`.
Delivers(token, idx) ==
    \E u \in engine, fails \in BOOLEAN :
       /\ u.token = token
       /\ u.idx = idx
       /\ (onend(u, fails) \/ onerror(u, fails))

\* An engine that delivers the end or the error event of every utterance it
\* was handed: no utterance stays held for ever.
EngineDelivers ==
    \A token \in 1..MaxToken, idx \in 1..MaxSegments :
       WF_vars(Delivers(token, idx))

\* The play and stop buttons, the Previous and Next day buttons, and the
\* engine's events.  The flush utterance and the timer of a hard stop, which
\* touch nothing the controller reads, are not followed here.
NextPlay ==
    \/ \E d \in 0..(NumDays + DayMargin) : goToDay(d)
    \/ \E fails \in BOOLEAN : pressPlayAll(fails)
    \/ \E i \in 0..(MaxSegments - 1), fails \in BOOLEAN : pressPlaySegment(i, fails)
    \/ \E fails \in BOOLEAN : pressStop(fails)
    \/ \E u \in engine : onstart(u)
    \/ \E u \in engine, fails \in BOOLEAN : onend(u, fails)
    \/ \E u \in engine, fails \in BOOLEAN : onerror(u, fails)

SpecPlay == InitSpeech /\ [][NextPlay]_vars

FairPlay == SpecPlay /\ EngineDelivers

----------------------------------------------------------------------------
(* The day gate on every combination of thresholds, answers and text *)

\* The answer maps a learner can have recorded for a quiz whose questions
\* have the keys `keys`.
AnswerMaps(keys) == UNION {[S -> Choices] : S \in SUBSET keys}

\* The number of entries of `chosen` that are the correct choice, where
\* answerOf gives the correct choice of each key.
CorrectIn(chosen, answerOf) ==
    Cardinality({k \in DOMAIN chosen : chosen[k] = answerOf[k]})

\* A learner who has unlocked every day, on the quiz page of one of them,
\* after any answers and any typing.
InitGate ==
    /\ dayPlans \in GateVariants
    /\ loaded = loadProgress(NoItem)
    /\ \E d \in 1..NumDays :
          progress = [currentDay |-> d, maxUnlockedDay |-> NumDays, mode |-> "quiz"]
    /\ storage = saveProgress(progress)
    /\ LET plan == dayPlans[progress.currentDay]
           flat == flattenListeningQuiz(plan)
       IN /\ vocabChosen \in AnswerMaps(0..(Len(plan.vocab_quiz) - 1))
          /\ vocabCorrect = CorrectIn(vocabChosen,
                [i \in 0..(Len(plan.vocab_quiz) - 1) |-> plan.vocab_quiz[i + 1].answer])
          /\ grammarChosen \in AnswerMaps(0..(Len(plan.grammar.quiz) - 1))
          /\ grammarCorrect = CorrectIn(grammarChosen,
                [i \in 0..(Len(plan.grammar.quiz) - 1) |-> plan.grammar.quiz[i + 1].a])
          /\ listeningChosen \in AnswerMaps({flat[k].key : k \in 1..Len(flat)})
          /\ listeningCorrect = CorrectIn(listeningChosen,
                [key \in {flat[k].key : k \in 1..Len(flat)} |->
                    flat[CHOOSE k \in 1..Len(flat) : flat[k].key = key].q.a])
    /\ outputText \in InputTexts
    /\ outputReport = NoReport
    /\ result = NoResult
    /\ SpeechIs(Silent(FALSE))
    /\ lastCall = Call("setOutputText", 0, <<>>, "", FALSE)

NextGate == checkPassAndUnlock

SpecGate == InitGate /\ [][NextGate]_vars

----------------------------------------------------------------------------
(* The output rule evaluator on every combination of rules and text *)

\* Texts typed into the output box.
EvalTexts ==
    InputTexts \cup {<<"b", ".">>,
                     <<"z", " ", "b", "!", " ", "A", ".">>}

\* Output rules of a day plan: keyword lists, pattern lists, thresholds.
EvalKeywords == {<<>>, <<<<"B">>>>, <<<<"z">>, <<"c", "c">>>>}
EvalPatterns ==
    {<<>>, <<Pattern(TRUE, <<"b">>)>>,
     <<Pattern(TRUE, <<"a">>), Pattern(FALSE, <<"c">>)>>}
EvalCounts == {0, 2}

\* Plan A with the given output rules; the quiz thresholds are 0, so that
\* the output decides the verdict.
EvalPlan(d, chars, rules) ==
    [PlanA(d, PassRules(chars, Ratio(0, 1), Ratio(0, 1), Ratio(0, 1)))
        EXCEPT !.outputRules = rules]

EvalVariants ==
    {[d \in 1..NumDays |->
        EvalPlan(d, chars, [mustIncludeAny |-> Some(any),
                            mustIncludeAllPatterns |-> Some(pats),
                            minSentences |-> Some(sents),
                            mustUseVocabAtLeast |-> Some(voc)])] :
        chars \in {2, 8}, any \in EvalKeywords, pats \in EvalPatterns,
        sents \in EvalCounts, voc \in EvalCounts}

\* The learner is on the quiz page of day 1 and has typed a text.
InitEval ==
    /\ dayPlans \in EvalVariants
    /\ loaded = loadProgress(NoItem)
    /\ progress = [currentDay |-> 1, maxUnlockedDay |-> 1, mode |-> "quiz"]
    /\ storage = saveProgress(progress)
    /\ vocabCorrect = 0
    /\ vocabChosen = <<>>
    /\ grammarCorrect = 0
    /\ grammarChosen = <<>>
    /\ listeningCorrect = 0
    /\ listeningChosen = <<>>
    /\ outputText \in EvalTexts
    /\ outputReport = NoReport
    /\ result = NoResult
    /\ SpeechIs(Silent(FALSE))
    /\ lastCall = Call("setOutputText", 0, <<>>, "", FALSE)

NextEval == evaluateOutput \/ checkPassAndUnlock

SpecEval == InitEval /\ [][NextEval]_vars

----------------------------------------------------------------------------
(* The output rule evaluator on plans with absent rule fields *)

\* A field of the rules that is missing from the plan, or has the value v.
Optional(v) == {None, Some(v)}

\* Plan A with the given output rules and a minOutputChars that may be
\* missing; the quiz thresholds are 0.
EvalPlanOpt(d, chars, rules) ==
    [EvalPlan(d, 0, rules) EXCEPT !.passRules.minOutputChars = chars]

\* Every combination of present and missing rule fields.
AbsentVariants ==
    {[d \in 1..NumDays |->
        EvalPlanOpt(d, chars, [mustIncludeAny |-> any,
                               mustIncludeAllPatterns |-> pats,
                               minSentences |-> sents,
                               mustUseVocabAtLeast |-> voc])] :
        chars \in Optional(2), any \in Optional(<<<<"B">>>>),
        pats \in Optional(<<Pattern(TRUE, <<"b">>)>>),
        sents \in Optional(2), voc \in Optional(2)}

\* The learner is on the quiz page of day 1 and has typed a text.
InitAbsent ==
    /\ dayPlans \in AbsentVariants
    /\ loaded = loadProgress(NoItem)
    /\ progress = [currentDay |-> 1, maxUnlockedDay |-> 1, mode |-> "quiz"]
    /\ storage = saveProgress(progress)
    /\ vocabCorrect = 0
    /\ vocabChosen = <<>>
    /\ grammarCorrect = 0
    /\ grammarChosen = <<>>
    /\ listeningCorrect = 0
    /\ listeningChosen = <<>>
    /\ outputText \in EvalTexts
    /\ outputReport = NoReport
    /\ result = NoResult
    /\ SpeechIs(Silent(FALSE))
    /\ lastCall = Call("setOutputText", 0, <<>>, "", FALSE)

NextAbsent == evaluateOutput \/ checkPassAndUnlock

SpecAbsent == InitAbsent /\ [][NextAbsent]_vars

----------------------------------------------------------------------------
(* A session on the quiz page of day 1, with every handler of the page *)

\* A lesson with one vocabulary question, no grammar question and one
\* listening segment with one question.
PlanQ(d, rules) ==
    [day |-> d,
     vocab_list |-> <<[de |-> <<"A">>]>>,
     vocab_quiz |-> <<VocabQ("x", <<"x", "y">>)>>,
     grammar |-> [quiz |-> <<>>],
     listening |-> [segments |-> Some(<<Segment(<<"a">>, 1,
                                                <<Q("y", <<"x", "y">>)>>)>>),
                    text |-> <<>>, quiz |-> None],
     outputRules |-> [mustIncludeAny |-> Some(<<>>),
                      mustIncludeAllPatterns |-> Some(<<>>),
                      minSentences |-> Some(2),
                      mustUseVocabAtLeast |-> Some(1)],
     passRules |-> rules]

\* The content provider supplies that one lesson, as day 1; its vocabulary
\* quiz does not count for the pass, its listening quiz does.
SessionVariants ==
    {<<PlanQ(1, PassRules(3, Ratio(0, 1), One, One))>>}

\* A new learner opened the quiz of day 1 and answered the vocabulary
\* question wrongly; nothing has been played, typed or evaluated yet.
InitSession ==
    /\ dayPlans \in SessionVariants
    /\ loaded = loadProgress(NoItem)
    /\ progress = withMode(Unwrap(loaded.value), "quiz")
    /\ storage = saveProgress(progress)
    /\ vocabChosen = withChoice(<<>>, 0, "y")
    /\ vocabCorrect = countAfter(0, "y", dayPlans[1].vocab_quiz[1].answer)
    /\ grammarChosen = <<>>
    /\ grammarCorrect = 0
    /\ listeningCorrect = 0
    /\ listeningChosen = <<>>
    /\ outputText = <<>>
    /\ outputReport = NoReport
    /\ result = NoResult
    /\ \E supported \in BOOLEAN : SpeechIs(Mounted(supported, FALSE))
    /\ lastCall = Call("answerVocab", 0, <<0>>, "y", FALSE)

\* Every handler of the page, and an engine that starts and ends what it is
\* handed.  The flush utterance and the timer of a hard stop, which touch
\* nothing but the engine, are not followed here.
NextSession ==
    \/ \E m \in {"learn", "quiz"} : setMode(m)
    \/ \E d \in 0..(NumDays + DayMargin) : goToDay(d)
    \/ \E b \in BOOLEAN : reset(b)
    \/ \E i \in 0..(MaxQuestions - 1), c \in Choices : answerVocab(i, c)
    \/ \E i \in 1..MaxQuestions, c \in Choices : answerListening(i, c)
    \/ \E t \in InputTexts : setOutputText(t)
    \/ evaluateOutput
    \/ checkPassAndUnlock
    \/ pressPlayAll(FALSE)
    \/ pressStop(FALSE)
    \/ \E u \in engine : onstart(u)
    \/ \E u \in engine : onend(u, FALSE)

SpecSession == InitSession /\ [][NextSession]_vars

----------------------------------------------------------------------------
(* loadProgress on every payload localStorage can hold *)

InitLoad ==
    /\ storage \in Payloads
    /\ loaded = NotLoaded
    /\ dayPlans \in PlanVariants
    /\ progress = DefaultProgress
    /\ vocabCorrect = 0
    /\ vocabChosen = <<>>
    /\ grammarCorrect = 0
    /\ grammarChosen = <<>>
    /\ listeningCorrect = 0
    /\ listeningChosen = <<>>
    /\ outputText = <<>>
    /\ outputReport = NoReport
    /\ result = NoResult
    /\ SpeechIs(Silent(FALSE))
    /\ lastCall = Call("none", 0, <<>>, "", FALSE)

\* Line 137: the call of loadProgress() as the component is constructed.
load ==
    /\ lastCall.fn = "none"
    /\ loaded' = loadProgress(storage)
    /\ lastCall' = Call("loadProgress", 0, <<>>, "", FALSE)
    /\ UNCHANGED <<storage, progress, dayPlans, vocabCorrect, vocabChosen,
                   grammarCorrect, grammarChosen, listeningCorrect,
                   listeningChosen, outputText, outputReport, result,
                   ttsSupported, isSpeaking, utterQueue, stopToken, engine,
                   flushes, timers>>

NextLoad == load

SpecLoad == InitLoad /\ [][NextLoad]_vars

----------------------------------------------------------------------------
(* Claims *)

IsCheck(call) == call.fn = "checkPassAndUnlock"

\* C1: maxUnlockedDay never decreases in a step of setMode, goToDay or
\* checkPassAndUnlock (passing or failing), nor in a quiz answer or an
\* output evaluation; only a reset may lower it.
C1_MaxUnlockedMonotone ==
    [][progress'.maxUnlockedDay >= progress.maxUnlockedDay
       \/ lastCall'.fn = "reset"]_vars

\* C1 witness: a day passed again after later days were unlocked, with
\* maxUnlockedDay kept above the day that follows it.
C1_Witness ==
    /\ IsCheck(lastCall)
    /\ lastCall.passed
    /\ progress.maxUnlockedDay > lastCall.day + 1

\* C2: from the default Progress, every reachable state has
\* 1 <= currentDay <= maxUnlockedDay, so the effective day
\* min(currentDay, maxUnlockedDay) is currentDay.
C2_CurrentDayWithinUnlocked ==
    /\ 1 <= progress.currentDay
    /\ progress.currentDay <= progress.maxUnlockedDay
    /\ safeDay = progress.currentDay

\* C2 witness: the learner went back to an earlier day than the last
\* unlocked one.
C2_Witness ==
    /\ lastCall.fn = "goToDay"
    /\ progress.currentDay = lastCall.day
    /\ progress.currentDay < progress.maxUnlockedDay

\* C3: maxUnlockedDay increases only in a passing checkPassAndUnlock step,
\* and then by exactly 1, to the active day + 1.
C3_UnlockOnlyByPassing ==
    [][progress'.maxUnlockedDay > progress.maxUnlockedDay =>
          /\ IsCheck(lastCall')
          /\ lastCall'.passed
          /\ lastCall'.day = safeDay
          /\ progress'.maxUnlockedDay = progress.maxUnlockedDay + 1
          /\ progress'.maxUnlockedDay = safeDay + 1]_vars

\* C3 witness: two days were unlocked, each by a pass of the day before.
C3_Witness ==
    /\ IsCheck(lastCall)
    /\ lastCall.passed
    /\ lastCall.day = 2
    /\ progress.maxUnlockedDay = 3

\* C4: goToDay(d) leaves Progress (and its persisted copy) as it is when
\* d < 1 or d > maxUnlockedDay; otherwise it sets currentDay = d and
\* mode = learn and leaves maxUnlockedDay unchanged.
C4_GoToDay ==
    [][lastCall'.fn = "goToDay" =>
          LET d == lastCall'.day
          IN IF d < 1 \/ d > progress.maxUnlockedDay
             THEN progress' = progress /\ storage' = storage
             ELSE progress' = [currentDay |-> d,
                               maxUnlockedDay |-> progress.maxUnlockedDay,
                               mode |-> "learn"]]_vars

\* C4 witness: goToDay was called with a locked day while more than one day
\* was unlocked and the learner was on the quiz page.
C4_Witness ==
    /\ lastCall.fn = "goToDay"
    /\ lastCall.day > progress.maxUnlockedDay
    /\ progress.maxUnlockedDay > 1
    /\ progress.mode = "quiz"

\* C5: a passing checkPassAndUnlock on active day a makes Progress exactly
\* maxUnlockedDay = max(old maxUnlockedDay, a + 1), currentDay = a + 1,
\* mode = learn, and the persisted copy is that same Progress: one update,
\* one write.
C5_PassAdvances ==
    [][IsCheck(lastCall') /\ lastCall'.passed =>
          /\ lastCall'.day = safeDay
          /\ progress' = [currentDay |-> safeDay + 1,
                          maxUnlockedDay |->
                              IF progress.maxUnlockedDay >= safeDay + 1
                              THEN progress.maxUnlockedDay ELSE safeDay + 1,
                          mode |-> "learn"]
          /\ storage' = Payload("object", Num(progress'.currentDay),
                                Num(progress'.maxUnlockedDay),
                                Str(progress'.mode))]_vars

\* C5 witness: from {currentDay: 1, maxUnlockedDay: 1} the pass gave
\* {currentDay: 2, maxUnlockedDay: 2}.
C5_Witness ==
    /\ IsCheck(lastCall)
    /\ lastCall.passed
    /\ lastCall.day = 1
    /\ progress = [currentDay |-> 2, maxUnlockedDay |-> 2, mode |-> "learn"]

\* C6: a failing checkPassAndUnlock leaves Progress and the persisted copy
\* unchanged, however often it is repeated.
C6_FailKeepsProgress ==
    [][IsCheck(lastCall') /\ ~lastCall'.passed =>
          progress' = progress /\ storage' = storage]_vars

\* C6 witness: a failed check on a day with a later day already unlocked;
\* the learner is still on that day's quiz page.
C6_Witness ==
    /\ IsCheck(lastCall)
    /\ ~lastCall.passed
    /\ result # NoResult
    /\ ~result.passed
    /\ progress.mode = "quiz"
    /\ progress.currentDay = lastCall.day
    /\ progress.maxUnlockedDay > progress.currentDay

\* C7: the verdict's passed is the conjunction of the three threshold
\* comparisons and outputOk, for the scores, thresholds and text of the
\* state the check was called in.
C7_VerdictIsConjunction ==
    [][IsCheck(lastCall') =>
          LET v == verdictOf(dayPlan, vocabCorrect, grammarCorrect,
                             listeningCorrect, outputText)
              rules == dayPlan.passRules
          IN lastCall'.passed =
                (/\ GeRatio(v.vocabScore, rules.vocabMinCorrect)
                 /\ GeRatio(v.grammarScore, rules.grammarMinCorrect)
                 /\ GeRatio(v.listeningScore, rules.listeningMinCorrect)
                 /\ v.outputOk)]_vars

\* C7 witness: a check that failed on the listening score alone.
C7_Witness ==
    /\ IsCheck(lastCall)
    /\ result # NoResult
    /\ ~result.passed
    /\ result.outputOk
    /\ GeRatio(result.vocabScore, dayPlan.passRules.vocabMinCorrect)
    /\ GeRatio(result.grammarScore, dayPlan.passRules.grammarMinCorrect)
    /\ ~GeRatio(result.listeningScore, dayPlan.passRules.listeningMinCorrect)

\* C8: a click on a choice of a question that already has a recorded answer
\* changes neither the answer map nor the correct-count of its quiz set, for
\* the vocabulary, the grammar and the listening quiz.
C8_AnsweredIsLocked ==
    [][/\ (lastCall'.fn = "answerVocab" /\ lastCall'.key[1] \in DOMAIN vocabChosen)
            => vocabChosen' = vocabChosen /\ vocabCorrect' = vocabCorrect
       /\ (lastCall'.fn = "answerGrammar" /\ lastCall'.key[1] \in DOMAIN grammarChosen)
            => grammarChosen' = grammarChosen /\ grammarCorrect' = grammarCorrect
       /\ (lastCall'.fn = "answerListening" /\ lastCall'.key \in DOMAIN listeningChosen)
            => listeningChosen' = listeningChosen
               /\ listeningCorrect' = listeningCorrect]_vars

\* C8 witness: the learner answered a listening question wrongly, then
\* clicked its correct choice: the stored choice is still the wrong one and
\* the count is 0.
C8_Witness ==
    /\ hasDayPlan
    /\ lastCall.fn = "answerListening"
    /\ lastCall.key \in DOMAIN listeningChosen
    /\ listeningChosen[lastCall.key] # lastCall.choice
    /\ \E k \in 1..Len(listeningQuizFlat) :
          /\ listeningQuizFlat[k].key = lastCall.key
          /\ listeningQuizFlat[k].q.a = lastCall.choice
    /\ listeningCorrect = 0

InUnitInterval(r) == r.den > 0 /\ 0 <= r.num /\ r.num <= r.den

ScoreIs(r, correct, total) ==
    IF total = 0 THEN r.num = 1 /\ r.den = 1
    ELSE r.num * total = correct * r.den

\* C9: for each of the three quiz sets the score is exactly 1 when the set
\* has no question and correctCount / totalQuestions otherwise, and lies in
\* [0, 1], in every state the answers can lead to; the scores of a stored
\* verdict lie in [0, 1] too.
C9_ScoreRange ==
    /\ hasDayPlan =>
          LET nv == Len(dayPlan.vocab_quiz)
              ng == Len(dayPlan.grammar.quiz)
              nl == Len(listeningQuizFlat)
              v == verdictOf(dayPlan, vocabCorrect, grammarCorrect,
                             listeningCorrect, outputText)
          IN /\ ScoreIs(v.vocabScore, vocabCorrect, nv)
             /\ ScoreIs(v.grammarScore, grammarCorrect, ng)
             /\ ScoreIs(v.listeningScore, listeningCorrect, nl)
             /\ InUnitInterval(v.vocabScore)
             /\ InUnitInterval(v.grammarScore)
             /\ InUnitInterval(v.listeningScore)
    /\ result # NoResult =>
          /\ InUnitInterval(result.vocabScore)
          /\ InUnitInterval(result.grammarScore)
          /\ InUnitInterval(result.listeningScore)

\* C9 witness: a verdict with a vocabulary score of 1/2, the vacuous grammar
\* score 1 of a set without questions, and a listening score of 0.
C9_Witness ==
    /\ hasDayPlan
    /\ IsCheck(lastCall)
    /\ result # NoResult
    /\ Len(dayPlan.grammar.quiz) = 0
    /\ result.grammarScore = [num |-> 1, den |-> 1]
    /\ result.vocabScore = [num |-> 1, den |-> 2]
    /\ result.listeningScore = [num |-> 0, den |-> 1]

IsDayAtLeastOne(j) == j.t = "number" /\ j.n >= 1

\* C10: for every persisted payload loadProgress raises no error and returns
\* currentDay >= 1, maxUnlockedDay >= 1 and mode in {learn, quiz}; for an
\* absent or corrupt payload it returns the default Progress.
C10_LoadReturnsValidProgress ==
    lastCall.fn = "loadProgress" =>
        /\ ~loaded.raised
        /\ IsDayAtLeastOne(loaded.value.currentDay)
        /\ IsDayAtLeastOne(loaded.value.maxUnlockedDay)
        /\ loaded.value.mode \in {Str("learn"), Str("quiz")}
        /\ storage.kind \in {"absent", "empty", "invalid", "null"} =>
              loaded.value = Wrap(DefaultProgress)

----------------------------------------------------------------------------
(* Claims about the speech queue controller *)

\* The step is a callback of the engine for u: start, end or error.
IsCallbackOf(u) ==
    \/ onstart(u)
    \/ \E fails \in BOOLEAN : onend(u, fails) \/ onerror(u, fails)

\* C11: a start, end or error callback of an utterance created under an
\* earlier stop token than the current one changes neither utterQueue nor
\* isSpeaking, whenever it fires.
C11_StaleCallbackIsNoOp ==
    [][\A u \in engine :
          (u.token # stopToken /\ IsCallbackOf(u)) =>
              utterQueue' = utterQueue /\ isSpeaking' = isSpeaking]_vars

\* The step is the end or the error callback of u.
IsTerminalOf(u) == \E fails \in BOOLEAN : onend(u, fails) \/ onerror(u, fails)

\* The entries handed to the engine and still held by it: stop token of the
\* loop and position in its list.
Held(e) == {<<u.token, u.idx>> : u \in e}

\* C12: when the end or the error callback of an utterance fires after its
\* loop was stopped (its token is no longer the stop token), the queue and
\* the speaking flag stay as they are and nothing is handed to the engine;
\* in no step does the engine receive an entry of a stopped loop.
C12_LateCallbackAfterStop ==
    [][/\ \A u \in engine :
             (u.token # stopToken /\ IsTerminalOf(u)) =>
                 /\ utterQueue' = utterQueue
                 /\ isSpeaking' = isSpeaking
                 /\ engine' = engine \ {u}
       /\ \A h \in Held(engine') \ Held(engine) : h[1] = stopToken']_vars

\* C12 witness: the end or error callback of the first entry of a stopped
\* loop has just fired; the controller is idle and the engine holds nothing.
C12_Witness ==
    /\ lastCall.fn \in {"onend", "onerror"}
    /\ lastCall.day < stopToken
    /\ lastCall.key = <<1>>
    /\ utterQueue = <<>>
    /\ ~isSpeaking
    /\ engine = {}

IsPlay(call) == call.fn \in {"speakAllListening", "speakOneSegment"}

\* C14 as stated: every call of speakAllListening, speakOneSegment and
\* stopSpeaking leaves the stop token strictly greater than it was, whether
\* or not ttsSupported and whatever the texts, and no step lowers it.
C14_EveryCallIncrements ==
    [][/\ (IsPlay(lastCall') \/ lastCall'.fn = "stopSpeaking") =>
             stopToken' > stopToken
       /\ stopToken' >= stopToken]_vars

\* C14 amended: every stopSpeaking call increments the stop token, supported
\* or not; a play call increments it when ttsSupported, whether or not the
\* filtered text list is empty, and leaves it as it is when not
\* ttsSupported; no step lowers it.
C14_CallsIncrementWhenSupported ==
    [][/\ lastCall'.fn = "stopSpeaking" => stopToken' = stopToken + 1
       /\ IsPlay(lastCall') =>
             stopToken' = IF ttsSupported THEN stopToken + 1 ELSE stopToken
       /\ stopToken' >= stopToken]_vars

\* C14 witness: the first play after mount was of the segment without text:
\* nothing is queued or handed to the engine, and the stop token went from
\* 1 to 2.
C14_Witness ==
    /\ lastCall.fn = "speakOneSegment"
    /\ ttsSupported
    /\ stopToken = 2
    /\ flushes = {2}
    /\ utterQueue = <<>>
    /\ engine = {}

\* C15: in the state a stopSpeaking call leaves, utterQueue is empty and
\* isSpeaking is false, whatever the state it was called in, supported or
\* not, and whether or not the engine's methods threw during the hard stop.
C15_StopLeavesIdle ==
    [][lastCall'.fn = "stopSpeaking" =>
          utterQueue' = <<>> /\ ~isSpeaking']_vars

\* C15 witness: stopSpeaking was called while the first entry of a play was
\* being spoken, and the engine's methods threw: the engine still holds the
\* started utterance, no flush utterance and no timer is pending, and the
\* controller is idle.
C15_Witness ==
    /\ lastCall.fn = "stopSpeaking"
    /\ utterQueue = <<>>
    /\ ~isSpeaking
    /\ flushes = {}
    /\ timers = {}
    /\ \E u \in engine :
          /\ u.token = stopToken - 1
          /\ u.idx = 1
          /\ u.started
          /\ u.text = <<"a">>

\* C16 as stated: every step that changes the active day increments the
\* stop token, empties utterQueue and leaves isSpeaking false, and makes every
\* utterance the engine holds one of a stopped loop; no step hands an entry
\* of a stopped loop to the engine.
C16_DayChangeStops ==
    [][/\ safeDay' # safeDay =>
             /\ stopToken' > stopToken
             /\ utterQueue' = <<>>
             /\ ~isSpeaking'
             /\ \A u \in engine' : u.token < stopToken'
       /\ \A h \in Held(engine') \ Held(engine) : h[1] = stopToken']_vars

\* C16 amended: the same, with the stop token incremented when ttsSupported
\* and left as it is when not (then nothing was ever played).
C16_DayChangeStopsWhenSupported ==
    [][/\ safeDay' # safeDay =>
             /\ stopToken' = IF ttsSupported THEN stopToken + 1 ELSE stopToken
             /\ utterQueue' = <<>>
             /\ ~isSpeaking'
             /\ engine' = engine
             /\ \A u \in engine' : u.token < stopToken'
       /\ \A h \in Held(engine') \ Held(engine) : h[1] = stopToken']_vars

\* C16 witness: the learner passed the day while the first entry of a play
\* was being spoken: the day changed, the controller is idle and the
\* utterance the engine still holds is of the loop before the stop token.
C16_Witness ==
    /\ IsCheck(lastCall)
    /\ lastCall.passed
    /\ safeDay = lastCall.day + 1
    /\ ttsSupported
    /\ utterQueue = <<>>
    /\ ~isSpeaking
    /\ \E u \in engine : u.token = stopToken - 1 /\ u.started

\* C18: the error callback of the utterance of the loop of the current stop
\* token, when speak() does not throw, hands the head of the queue to the
\* engine as the next entry and keeps the tail as the queue (or, with an
\* empty queue, leaves the controller idle); the failed entry is not handed
\* again and the stop token is unchanged.
C18_ErrorAdvances ==
    [][\A u \in engine :
          (u.token = stopToken /\ onerror(u, FALSE)) =>
              /\ stopToken' = stopToken
              /\ \A v \in engine' : ~(v.token = u.token /\ v.idx <= u.idx)
              /\ IF utterQueue = <<>>
                 THEN /\ utterQueue' = <<>>
                      /\ ~isSpeaking'
                      /\ engine' = engine \ {u}
                 ELSE /\ utterQueue' = Tail(utterQueue)
                      /\ isSpeaking' = isSpeaking
                      /\ engine' = (engine \ {u})
                            \cup {Utterance(u.token, u.idx + 1, Head(utterQueue))}]_vars

\* C18 witness: the first entry of the running loop reported an error and
\* the second, "b.", is now held by the engine.
C18_Witness ==
    /\ lastCall.fn = "onerror"
    /\ lastCall.day = stopToken
    /\ lastCall.key = <<1>>
    /\ utterQueue = <<>>
    /\ engine = {Utterance(stopToken, 2, <<"b", ".">>)}

\* C20: the cancel() of the flush utterance's onend and the cancel() of the
\* 50 ms timer of a hard stop never run while the engine holds an utterance
\* that the play which made that hard stop handed to it and which is still
\* the running loop (its token is the stop token).
C20_OwnCancelsSpareOwnUtterances ==
    [][lastCall'.fn \in {"flush.onend", "timer"} =>
          ~\E u \in engine : u.token = lastCall'.day /\ u.token = stopToken]_vars

----------------------------------------------------------------------------
(* Claims about the output rule evaluator and the persisted copy *)

AllFive(r) ==
    r.charsOk /\ r.sentencesOk /\ r.keywordOk /\ r.patternsOk /\ r.vocabOk

\* The plan with p added to its required patterns.
withPattern(plan, p) ==
    [plan EXCEPT !.outputRules.mustIncludeAllPatterns = Some(OrEmpty(@) \o <<p>>)]

\* Patterns added to the rules of a plan.
ExtraPatterns ==
    {Pattern(TRUE, <<"z">>), Pattern(TRUE, <<"c">>), Pattern(FALSE, <<"b", " ">>)}

\* C17: the outputOk of a verdict is the conjunction of the five sub-checks
\* of the report of the same call, and a check passes only when all five
\* hold; with a pattern the text does not match added to the required
\* patterns of the plan, the report of the same text has patternsOk false
\* and does not pass, and its character, sentence, keyword and vocabulary
\* values are those of the report without the pattern.
C17_EvaluatorConjunction ==
    [][/\ (IsCheck(lastCall') /\ result' # NoResult) =>
             result'.outputOk = AllFive(outputReport')
       /\ (IsCheck(lastCall') /\ lastCall'.passed) =>
             AllFive(outputReportOf(dayPlan, outputText))
       /\ lastCall'.fn = "evaluateOutput" =>
             \A p \in ExtraPatterns :
                 ~regexTest(p, outputText) =>
                     LET r == outputReport'
                         q == outputReportOf(withPattern(dayPlan, p), outputText)
                     IN /\ ~q.patternsOk
                        /\ ~reportPasses(q)
                        /\ q.charCount = r.charCount
                        /\ q.charsOk = r.charsOk
                        /\ q.sentences = r.sentences
                        /\ q.sentencesOk = r.sentencesOk
                        /\ q.keywordOk = r.keywordOk
                        /\ q.vocabUsedCount = r.vocabUsedCount
                        /\ q.vocabOk = r.vocabOk]_vars

\* C17 witness: a report that passes all five sub-checks under rules with a
\* required pattern, for a text that does not match one of the patterns to
\* add.
C17_Witness ==
    /\ lastCall.fn = "evaluateOutput"
    /\ outputReport # NoReport
    /\ AllFive(outputReport)
    /\ Len(outputReport.mustIncludeAllPatterns) > 0
    /\ Len(outputReport.mustIncludeAny) > 0
    /\ \E p \in ExtraPatterns : ~regexTest(p, outputText)

\* A Progress with 1 <= currentDay <= maxUnlockedDay and a mode.
WellFormed ==
    {p \in [currentDay : 1..(NumDays + 1), maxUnlockedDay : 1..(NumDays + 1),
            mode : {"learn", "quiz"}] : p.currentDay <= p.maxUnlockedDay}

\* C19: in every state, hence after setMode, an accepted goToDay, a passing
\* check and a reset, localStorage holds what saveProgress writes for the
\* Progress in memory and loadProgress of it returns that Progress; and for
\* every well-formed Progress p, loadProgress of what saveProgress(p) wrote
\* returns p.
C19_PersistedEqualsMemory ==
    /\ storage = saveProgress(progress)
    /\ ~loadProgress(storage).raised
    /\ loadProgress(storage).value = Wrap(progress)
    /\ progress \in WellFormed
    /\ \A p \in WellFormed :
          /\ ~loadProgress(saveProgress(p)).raised
          /\ Unwrap(loadProgress(saveProgress(p)).value) = p

\* C19 witness: two days were passed and the learner opened the quiz of the
\* third: localStorage holds {currentDay: 3, maxUnlockedDay: 3, mode: quiz}.
C19_Witness ==
    /\ lastCall.fn = "setMode"
    /\ progress = [currentDay |-> 3, maxUnlockedDay |-> 3, mode |-> "quiz"]
    /\ storage = Payload("object", Num(3), Num(3), Str("quiz"))

----------------------------------------------------------------------------
(* Claims about absent rule fields, side effects and the quiz state *)

\* C21: in a report of the evaluator, the sub-check of a rule field that is
\* missing from the plan (minSentences, mustUseVocabAtLeast, minOutputChars,
\* mustIncludeAny, mustIncludeAllPatterns) is true, whatever the text.
C21_AbsentIsPermissive ==
    [][lastCall'.fn = "evaluateOutput" =>
          LET rules == dayPlan.outputRules
              r == outputReport'
          IN /\ rules.minSentences = None => r.sentencesOk
             /\ rules.mustUseVocabAtLeast = None => r.vocabOk
             /\ dayPlan.passRules.minOutputChars = None => r.charsOk
             /\ rules.mustIncludeAny = None => r.keywordOk
             /\ rules.mustIncludeAllPatterns = None => r.patternsOk]_vars

\* The progress, its stored copy, the quiz answers and counts, the text and
\* the speech state are left as they are.
KeepsAllButReports ==
    UNCHANGED <<storage, progress, dayPlans, vocabCorrect, vocabChosen,
                grammarCorrect, grammarChosen, listeningCorrect,
                listeningChosen, outputText, loaded, ttsSupported, isSpeaking,
                utterQueue, stopToken, engine, flushes, timers>>

Done(t) ==
    /\ stopToken = t
    /\ utterQueue = <<>>
    /\ ~isSpeaking
    /\ ~\E u \in engine : u.token = t

\* The text lists the play buttons of the page hand to speakTextsAsQueue.
PlayLists ==
    {allTexts(dayPlan)}
    \cup {repeated(getListeningSegments(dayPlan)[k]) :
            k \in 1..Len(getListeningSegments(dayPlan))}

\* A step hands at most one entry to the engine, of the running loop: a play
\* the first entry of its filtered list, keeping the rest as the queue; an
\* end or error callback of entry k the head of the queue as entry k + 1,
\* keeping the tail.
HandsInOrder ==
    /\ Cardinality(Held(engine') \ Held(engine)) <= 1
    /\ \A u \in engine' :
          <<u.token, u.idx>> \notin Held(engine) =>
              /\ u.token = stopToken'
              /\ IF IsPlay(lastCall')
                 THEN /\ u.idx = 1
                      /\ \E texts \in PlayLists :
                            <<u.text>> \o utterQueue' = filterTexts(texts)
                 ELSE /\ lastCall'.fn \in {"onend", "onerror"}
                      /\ lastCall'.day = u.token
                      /\ lastCall'.key = <<u.idx - 1>>
                      /\ stopToken' = stopToken
                      /\ utterQueue # <<>>
                      /\ u.text = Head(utterQueue)
                      /\ utterQueue' = Tail(utterQueue)

\* C23: with an engine that delivers the end or the error event of every
\* utterance it was handed, a play that handed an entry to the engine under
\* stop token t leads to a state where the stop token is no longer t (another
\* play, a stop or a day change came) or the loop has run to its end: empty
\* queue, speaking flag false, no utterance of the loop held; and the
\* entries of the filtered list are handed one by one, in order, each once.
C23_PlayRunsToIdle ==
    /\ \A t \in 1..MaxToken :
          (IsPlay(lastCall) /\ stopToken = t /\ \E u \in engine : u.token = t)
              ~> (stopToken # t \/ Done(t))
    /\ [][HandsInOrder]_vars

\* C23 witness: the end or error event of the second and last entry of the
\* running loop was delivered after the day's two entries were handed: the
\* controller is idle and the engine holds nothing of the loop.
C23_Witness ==
    /\ lastCall.fn \in {"onend", "onerror"}
    /\ lastCall.key = <<2>>
    /\ Done(lastCall.day)

\* The three quizzes have no recorded answer and a count of 0.
QuizzesEmpty ==
    /\ vocabChosen = <<>> /\ vocabCorrect = 0
    /\ grammarChosen = <<>> /\ grammarCorrect = 0
    /\ listeningChosen = <<>> /\ listeningCorrect = 0

\* Every recorded answer is of a question of the active day, and each count
\* is the number of recorded answers that are the correct choice of their
\* question of the active day.
AnswersOfDay ==
    hasDayPlan =>
        LET nv == Len(dayPlan.vocab_quiz)
            ng == Len(dayPlan.grammar.quiz)
            flat == listeningQuizFlat
            keys == {flat[k].key : k \in 1..Len(flat)}
        IN /\ DOMAIN vocabChosen \subseteq 0..(nv - 1)
           /\ vocabCorrect = CorrectIn(vocabChosen,
                 [i \in 0..(nv - 1) |-> dayPlan.vocab_quiz[i + 1].answer])
           /\ DOMAIN grammarChosen \subseteq 0..(ng - 1)
           /\ grammarCorrect = CorrectIn(grammarChosen,
                 [i \in 0..(ng - 1) |-> dayPlan.grammar.quiz[i + 1].a])
           /\ DOMAIN listeningChosen \subseteq keys
           /\ listeningCorrect = CorrectIn(listeningChosen,
                 [key \in keys |->
                    flat[CHOOSE k \in 1..Len(flat) : flat[k].key = key].q.a])

\* C24: the state a step that changes the active day leaves has empty
\* answer maps and counts of 0 for the vocabulary, the grammar and the
\* listening quiz; so in every state the recorded answers are answers to
\* questions of the active day, and the counts count those only.
C24_DayChangeClearsQuizzes ==
    /\ [][safeDay' # safeDay => QuizzesEmpty']_vars
    /\ []AnswersOfDay

\* C24 witness: the learner passed day 2, which took a correct answer to its
\* grammar question, and is on day 3 with the three quizzes empty.
C24_Witness ==
    /\ IsCheck(lastCall)
    /\ lastCall.passed
    /\ lastCall.day = 2
    /\ safeDay = 3
    /\ hasDayPlan
    /\ QuizzesEmpty
    /\ Len(dayPlans[2].grammar.quiz) > 0
    /\ ~GeRatio(score(0, Len(dayPlans[2].grammar.quiz)),
                dayPlans[2].passRules.grammarMinCorrect)

\* C25: a call of speakAllListening or speakOneSegment made while
\* ttsSupported is false changes nothing of the controller or the engine,
\* whatever the texts of the day and the stop token: the queue stays empty,
\* isSpeaking false, the engine holds no utterance, and no flush utterance
\* or timer, whose callbacks would run later, is pending.
C25_UnsupportedPlayIsNoOp ==
    [][(IsPlay(lastCall') /\ ~ttsSupported) =>
          /\ UNCHANGED <<ttsSupported, isSpeaking, utterQueue, stopToken,
                         engine, flushes, timers>>
          /\ utterQueue' = <<>>
          /\ ~isSpeaking'
          /\ engine' = {}
          /\ flushes' = {}
          /\ timers' = {}]_vars

\* C25 witness: on an unsupported engine stopSpeaking was called and then
\* the play of all segments of a day with spoken text: the stop token is
\* still the one the stop left, and nothing is queued or held.
C25_Witness ==
    /\ lastCall.fn = "speakAllListening"
    /\ ~ttsSupported
    /\ stopToken = 1
    /\ hasDayPlan
    /\ filterTexts(allTexts(dayPlan)) # <<>>
    /\ utterQueue = <<>>
    /\ ~isSpeaking
    /\ engine = {}

\* Every answer recorded in `chosen` is recorded in `after`, unaltered.
KeepsAnswers(chosen, after) ==
    \A k \in DOMAIN chosen : k \in DOMAIN after /\ after[k] = chosen[k]

\* The step leaves the active day as it is and is not a click on a choice,
\* or is one and adds at most an answer to its own quiz: every recorded
\* answer of the three quizzes is kept and no count is lowered.
AnswersKept ==
    /\ KeepsAnswers(vocabChosen, vocabChosen')
    /\ KeepsAnswers(grammarChosen, grammarChosen')
    /\ KeepsAnswers(listeningChosen, listeningChosen')
    /\ vocabCorrect' >= vocabCorrect
    /\ grammarCorrect' >= grammarCorrect
    /\ listeningCorrect' >= listeningCorrect
    /\ lastCall'.fn # "answerVocab" =>
          vocabChosen' = vocabChosen /\ vocabCorrect' = vocabCorrect
    /\ lastCall'.fn # "answerGrammar" =>
          grammarChosen' = grammarChosen /\ grammarCorrect' = grammarCorrect
    /\ lastCall'.fn # "answerListening" =>
          listeningChosen' = listeningChosen
          /\ listeningCorrect' = listeningCorrect

\* The vocabulary question of day 1 is recorded as answered wrongly.
WrongOnDayOne ==
    /\ safeDay = 1
    /\ hasDayPlan
    /\ 0 \in DOMAIN vocabChosen
    /\ vocabChosen[0] # dayPlan.vocab_quiz[1].answer
    /\ vocabCorrect = 0

\* C26 as stated: a step that leaves the active day as it is keeps the
\* recorded answers and the counts, and the question answered wrongly on
\* day 1 with maxUnlockedDay = 1 is recorded as wrong whenever day 1 is the
\* active day, for the rest of the session.
C26_WrongForTheSession ==
    /\ [][safeDay' = safeDay => AnswersKept]_vars
    /\ [](safeDay = 1 => WrongOnDayOne)

\* C26 amended: a step that leaves the active day as it is keeps every
\* recorded answer and lowers no count, and unless it is a click on a choice
\* it leaves the three answer maps and counts exactly as they are (setMode,
\* goToDay rejected or to the active day, a failed check, an output
\* evaluation, typing, play, stop, the engine's events, reset on day 1); so
\* while maxUnlockedDay = 1 the question answered wrongly on day 1 stays
\* recorded as wrong, and the one step that ends this is a passing check,
\* which changes the active day.
C26_AnswersKeptWithinDay ==
    [][/\ safeDay' = safeDay => AnswersKept
       /\ (WrongOnDayOne /\ progress.maxUnlockedDay = 1) =>
             \/ /\ WrongOnDayOne'
                /\ progress'.maxUnlockedDay = 1
                /\ vocabChosen'[0] = vocabChosen[0]
             \/ /\ IsCheck(lastCall')
                /\ lastCall'.passed
                /\ safeDay' # safeDay]_vars

\* C26 witness: after a listening answer, a failed check and an evaluation
\* of the text, the learner confirmed Reset on day 1 with nothing unlocked:
\* the progress is the default one again, and the wrong vocabulary answer,
\* the listening answer, the report and the failed verdict are still there.
C26_Witness ==
    /\ lastCall.fn = "reset"
    /\ lastCall.passed
    /\ progress = DefaultProgress
    /\ WrongOnDayOne
    /\ DOMAIN listeningChosen # {}
    /\ listeningCorrect = 1
    /\ result # NoResult
    /\ ~result.passed
    /\ outputReport # NoReport
    /\ ttsSupported
    /\ stopToken > 1

====
